---- MODULE Spec2Model ----
(***************************************************************************)
(* Model of src/host/wasapi/activate_async.rs: capture_process,            *)
(* activate_audio_interface_sync and SyncHandler::ActivateCompleted, with  *)
(* the kernel handle table and the platform's activation machinery as the  *)
(* environment.  Caller threads run the bridge; the platform completes a   *)
(* submitted request on a thread of its own.                               *)
(***************************************************************************)
EXTENDS Integers, FiniteSets, Sequences, TLC

\* ---------------------------------------------------------------- bounds
MaxCalls == 2
NumHandles == 2
MaxDevices == 2
MaxBuffers == 2

\* two caller threads, enough for one call to interfere with another
Threads == {1, 2}
Handles == 1..NumHandles
NoHandle == 0

Pids == {4, 7}
HResults == {0, -1}
IIDs == {"IAudioClient", "IAudioRenderClient"}
ObjKinds == {"AudioClientObj", "RenderClientObj"}
NoObj == "none"

\* ------------------------------------------------- platform declarations
AUDIOCLIENT_ACTIVATION_TYPE_DEFAULT == 0
AUDIOCLIENT_ACTIVATION_TYPE_PROCESS_LOOPBACK == 1
PROCESS_LOOPBACK_MODE_INCLUDE_TARGET_PROCESS_TREE == 0
VIRTUAL_AUDIO_DEVICE_PROCESS_LOOPBACK == "VAD\\Process_Loopback"
VT_EMPTY == "VT_EMPTY"
VT_BLOB == "VT_BLOB"
SizeOfActivationParams == 12

\* the interfaces an activated object answers QueryInterface for
Supports(obj) ==
    IF obj = "AudioClientObj" THEN {"IUnknown", "IAudioClient"}
    ELSE IF obj = "RenderClientObj" THEN {"IUnknown", "IAudioRenderClient"}
    ELSE {}

\* ------------------------------------------------------------- results
NoResult == [kind |-> "None", err |-> "none", hr |-> 0, obj |-> NoObj, iid |-> "none"]
Ok(obj, iid) == [kind |-> "Ok", err |-> "none", hr |-> 0, obj |-> obj, iid |-> iid]
Err(e, code) == [kind |-> "Err", err |-> e, hr |-> code, obj |-> NoObj, iid |-> "none"]

\* windows::core::Error::from(hr): an error carrying the status code
ErrorFromHresult(hr) == Err("hresult", hr)

\* comi.cast::<Out>(): QueryInterface for Out::IID
CastAlwaysOk(obj, out) == Ok(obj, out)
cast(obj, out) ==
    IF out \in Supports(obj) THEN Ok(obj, out) ELSE Err("cast", 0)

\* lines 70-75: the final branch on the retrieved interface
BranchResult(ai, hr, out) ==
    IF ai # NoObj THEN cast(ai, out) ELSE ErrorFromHresult(hr)

\* -------------------------------------------------- kernel event objects
FreeSlot == [state |-> "free", signaled |-> FALSE, manual |-> FALSE,
             waiters |-> 0, owner |-> 0]

\* CreateEventW(None, false, false, None): bManualReset, bInitialState
ManualReset == TRUE
bManualReset == FALSE
InitiallySignaled == TRUE
bInitialState == FALSE

CreateEventW(evs, h, t) ==
    [evs EXCEPT ![h] = [state |-> "open", signaled |-> bInitialState,
                        manual |-> bManualReset, waiters |-> 0, owner |-> t]]

SetEvent(evs, h) ==
    IF h # NoHandle /\ evs[h].state = "open"
    THEN [evs EXCEPT ![h].signaled = TRUE] ELSE evs

\* WaitForSingleObject(ev, INFINITE): returns once the object is signaled
\* (or at once, with WAIT_FAILED, on a handle that is not open)
WaitNoBlock(evs, h) == TRUE
WaitReturns(evs, h) ==
    h = NoHandle \/ evs[h].state # "open" \/ evs[h].signaled

\* a satisfied wait resets an auto-reset event
AfterWait(evs, h) ==
    IF h # NoHandle /\ evs[h].state = "open" /\ ~evs[h].manual
    THEN [evs EXCEPT ![h].signaled = FALSE] ELSE evs

CloseHandle(evs, h) == [evs EXCEPT ![h] = FreeSlot]

\* ------------------------------------------------- per-call data records
NoParams == [ActivationType |-> AUDIOCLIENT_ACTIVATION_TYPE_DEFAULT,
             ProcessLoopbackMode |-> 0, TargetProcessId |-> 0]
NoPv == [vt |-> VT_EMPTY, cbSize |-> 0, pBlobData |-> 0, state |-> "none"]
NoOp == [state |-> "none", hr |-> 0, ai |-> NoObj,
         path |-> "none", iid |-> "none", blob |-> 0]

VARIABLES
    pc,        \* position of each caller thread
    entry,     \* which entry point the thread's call came through
    outIID,    \* Out::IID of the call
    params,    \* AUDIOCLIENT_ACTIVATION_PARAMS local of capture_process
    pv,        \* PROPVARIANT local of capture_process
    frame,     \* capture_process stack frame: "none" | "live" | "popped"
    ev,        \* the local ev of activate_audio_interface_sync
    handler,   \* the HANDLE held by the call's SyncHandler
    op,        \* the IActivateAudioInterfaceAsyncOperation of the call
    hrai,      \* the locals hr and ai after GetActivateResult
    result,    \* the value the call returned
    events,    \* the kernel handle table
    hist,      \* per call: how often it created, submitted, queried, was signaled
    calls,     \* calls started so far
    args,      \* the arguments (pid, capture_tree) of a capture_process call
    host,      \* traits.rs: what the backend's devices() and devices answer
    last,      \* traits.rs: the last default method called, with its result
    stream     \* traits.rs: a stream built by a typed builder, and its callbacks

traitVars == <<host, last, stream>>
bridgeVars == <<pc, entry, outIID, params, pv, frame, ev, handler, op, hrai,
                result, events, hist, calls, args>>

vars == <<pc, entry, outIID, params, pv, frame, ev, handler, op, hrai, result,
          events, hist, calls, args, traitVars>>

NoHist == [created |-> 0, attempts |-> 0, queried |-> 0, retrieved |-> 0,
           signals |-> 0, handlerRuns |-> 0, closed |-> 0]
NoHrAi == [hr |-> 0, ai |-> NoObj]
NoArgs == [pid |-> 0, capture_tree |-> FALSE]

\* traits.rs at rest: no host under test, nothing called, no stream built
NoHost == [devices |-> "Ok", devs |-> << >>]
NoCall == [op |-> "none", dev |-> 0, id |-> "none", ok |-> TRUE, flag |-> FALSE,
           items |-> << >>]
NoStream == [state |-> "none"]
TraitsIdle == host = NoHost /\ last = NoCall /\ stream = NoStream

BridgeInit ==
    /\ pc = [t \in Threads |-> "idle"]
    /\ entry = [t \in Threads |-> "none"]
    /\ outIID = [t \in Threads |-> "none"]
    /\ params = [t \in Threads |-> NoParams]
    /\ pv = [t \in Threads |-> NoPv]
    /\ frame = [t \in Threads |-> "none"]
    /\ ev = [t \in Threads |-> NoHandle]
    /\ handler = [t \in Threads |-> NoHandle]
    /\ op = [t \in Threads |-> NoOp]
    /\ hrai = [t \in Threads |-> NoHrAi]
    /\ result = [t \in Threads |-> NoResult]
    /\ events = [h \in Handles |-> FreeSlot]
    /\ hist = [t \in Threads |-> NoHist]
    /\ calls = 0
    /\ args = [t \in Threads |-> NoArgs]

Init == BridgeInit /\ TraitsIdle

\* ------------------------------------------------------- capture_process
\* lines 23-36: build the activation record and the container around it
BuildParams(pid, capture_tree) ==
    [ActivationType |-> AUDIOCLIENT_ACTIVATION_TYPE_PROCESS_LOOPBACK,
     ProcessLoopbackMode |->
        IF capture_tree THEN PROCESS_LOOPBACK_MODE_INCLUDE_TARGET_PROCESS_TREE
        ELSE NoParams.ProcessLoopbackMode,
     TargetProcessId |-> pid]

BuildPv(t) ==
    [vt |-> VT_BLOB, cbSize |-> SizeOfActivationParams, pBlobData |-> t,
     state |-> "live"]

\* a thread starts a call with fresh locals, whatever its last call left
FreshLocals(t) ==
    /\ pc[t] \in {"idle", "done"}
    /\ calls < MaxCalls
    /\ calls' = calls + 1
    /\ pc' = [pc EXCEPT ![t] = "create"]
    /\ ev' = [ev EXCEPT ![t] = NoHandle]
    /\ handler' = [handler EXCEPT ![t] = NoHandle]
    /\ op' = [op EXCEPT ![t] = NoOp]
    /\ hrai' = [hrai EXCEPT ![t] = NoHrAi]
    /\ result' = [result EXCEPT ![t] = NoResult]
    /\ hist' = [hist EXCEPT ![t] = NoHist]
    /\ UNCHANGED <<events, traitVars>>

capture_process(t, pid, capture_tree) ==
    /\ FreshLocals(t)
    /\ entry' = [entry EXCEPT ![t] = "capture_process"]
    /\ outIID' = [outIID EXCEPT ![t] = "IAudioClient"]
    /\ params' = [params EXCEPT ![t] = BuildParams(pid, capture_tree)]
    /\ pv' = [pv EXCEPT ![t] = BuildPv(t)]
    /\ frame' = [frame EXCEPT ![t] = "live"]
    /\ args' = [args EXCEPT ![t] = [pid |-> pid, capture_tree |-> capture_tree]]

\* a direct call of the generic bridge, with no activation parameters
activate_audio_interface_sync(t, out) ==
    /\ FreshLocals(t)
    /\ entry' = [entry EXCEPT ![t] = "direct"]
    /\ outIID' = [outIID EXCEPT ![t] = out]
    /\ params' = [params EXCEPT ![t] = NoParams]
    /\ pv' = [pv EXCEPT ![t] = NoPv]
    /\ frame' = [frame EXCEPT ![t] = "none"]
    /\ args' = [args EXCEPT ![t] = NoArgs]

\* ------------------------------------------- activate_audio_interface_sync
\* line 54, CreateEventW(..)? and line 55, the handler built around ev
\* SyncHandler(ev): the handle the completion handler is built around
SyncHandlerSharedEvent(h) == 1
SyncHandler(h) == h

\* lpName = None: an unnamed event is a new kernel object
NamedEvent(evs, h) == h = 1
UnnamedEvent(evs, h) == evs[h].state = "free"

CreateEventOk(t) ==
    /\ pc[t] = "create"
    /\ \E h \in Handles :
        /\ UnnamedEvent(events, h)
        /\ events' = CreateEventW(events, h, t)
        /\ ev' = [ev EXCEPT ![t] = h]
        /\ handler' = [handler EXCEPT ![t] = SyncHandler(h)]
    /\ hist' = [hist EXCEPT ![t].created = @ + 1]
    /\ pc' = [pc EXCEPT ![t] = "submit"]
    /\ UNCHANGED <<entry, outIID, params, pv, frame, op, hrai, result, calls, args, traitVars>>

CreateEventFail(t) ==
    /\ pc[t] = "create"
    /\ result' = [result EXCEPT ![t] = Err("CreateEventW", 0)]
    /\ pc' = [pc EXCEPT ![t] = "returned"]
    /\ UNCHANGED <<entry, outIID, params, pv, frame, ev, handler, op, hrai,
                   events, hist, calls, args, traitVars>>

\* lines 56-61, ActivateAudioInterfaceAsync(..)?
AfterSubmitFailureRetry == "submit"
AfterSubmitFailure == "returned"

SubmitOk(t) ==
    /\ pc[t] = "submit"
    /\ op' = [op EXCEPT ![t] =
                [state |-> "pending", hr |-> 0, ai |-> NoObj,
                 path |-> IF entry[t] = "capture_process"
                          THEN VIRTUAL_AUDIO_DEVICE_PROCESS_LOOPBACK
                          ELSE "device",
                 iid |-> outIID[t],
                 blob |-> IF entry[t] = "capture_process" THEN t ELSE 0]]
    /\ hist' = [hist EXCEPT ![t].attempts = @ + 1]
    /\ pc' = [pc EXCEPT ![t] = "wait"]
    /\ UNCHANGED <<entry, outIID, params, pv, frame, ev, handler, hrai, result,
                   events, calls, args, traitVars>>

SubmitFail(t) ==
    /\ pc[t] = "submit"
    /\ pc' = [pc EXCEPT ![t] = AfterSubmitFailure]
    /\ result' = [result EXCEPT ![t] =
                    IF AfterSubmitFailure = "returned"
                    THEN Err("ActivateAudioInterfaceAsync", 0) ELSE @]
    /\ hist' = [hist EXCEPT ![t].attempts = @ + 1]
    /\ UNCHANGED <<entry, outIID, params, pv, frame, ev, handler, op, hrai,
                   events, calls, args, traitVars>>

\* line 63, WaitForSingleObject(ev, INFINITE): the thread enters the wait
\* and is a waiter of the event until the wait returns
WaitEnter(t) ==
    /\ pc[t] = "wait"
    /\ events' = [events EXCEPT ![ev[t]].waiters = @ + 1]
    /\ pc' = [pc EXCEPT ![t] = "waiting"]
    /\ UNCHANGED <<entry, outIID, params, pv, frame, ev, handler, op, hrai,
                   result, hist, calls, args, traitVars>>

WaitWake(t) ==
    /\ pc[t] = "waiting"
    /\ WaitReturns(events, ev[t])
    /\ events' = [AfterWait(events, ev[t]) EXCEPT ![ev[t]].waiters = @ - 1]
    /\ pc' = [pc EXCEPT ![t] = "getresult"]
    /\ UNCHANGED <<entry, outIID, params, pv, frame, ev, handler, op, hrai,
                   result, hist, calls, args, traitVars>>

\* lines 65-67, result.GetActivateResult(&mut hr, &mut ai)?
GetActivateResultOk(t) ==
    /\ pc[t] = "getresult"
    /\ op[t].state = "completed"
    /\ hrai' = [hrai EXCEPT ![t] = [hr |-> op[t].hr, ai |-> op[t].ai]]
    /\ hist' = [hist EXCEPT ![t].queried = @ + 1, ![t].retrieved = @ + 1]
    /\ pc' = [pc EXCEPT ![t] = "close"]
    /\ UNCHANGED <<entry, outIID, params, pv, frame, ev, handler, op, result,
                   events, calls, args, traitVars>>

GetActivateResultFail(t) ==
    /\ pc[t] = "getresult"
    /\ hist' = [hist EXCEPT ![t].queried = @ + 1]
    /\ result' = [result EXCEPT ![t] = Err("GetActivateResult", 0)]
    /\ pc' = [pc EXCEPT ![t] = "returned"]
    /\ UNCHANGED <<entry, outIID, params, pv, frame, ev, handler, op, hrai,
                   events, calls, args, traitVars>>

\* line 68, CloseHandle(ev)?
CloseHandleOk(t) ==
    /\ pc[t] = "close"
    /\ events' = CloseHandle(events, ev[t])
    /\ hist' = [hist EXCEPT ![t].closed = @ + 1]
    /\ pc' = [pc EXCEPT ![t] = "branch"]
    /\ UNCHANGED <<entry, outIID, params, pv, frame, ev, handler, op, hrai,
                   result, calls, args, traitVars>>

CloseHandleFail(t) ==
    /\ pc[t] = "close"
    /\ result' = [result EXCEPT ![t] = Err("CloseHandle", 0)]
    /\ pc' = [pc EXCEPT ![t] = "returned"]
    /\ UNCHANGED <<entry, outIID, params, pv, frame, ev, handler, op, hrai,
                   events, hist, calls, args, traitVars>>

\* lines 70-75
Branch(t) ==
    /\ pc[t] = "branch"
    /\ result' = [result EXCEPT ![t] =
                    BranchResult(hrai[t].ai, hrai[t].hr, outIID[t])]
    /\ pc' = [pc EXCEPT ![t] = "returned"]
    /\ UNCHANGED <<entry, outIID, params, pv, frame, ev, handler, op, hrai,
                   events, hist, calls, args, traitVars>>

\* ------------------------------------------------ capture_process, exit
\* lines 39-42: `?` returns with pv dropped, success forgets pv first; the
\* frame holding params is popped either way
PvAfterReturn(p, res) ==
    IF res.kind = "Ok" THEN [p EXCEPT !.state = "forgotten"]
    ELSE [p EXCEPT !.state = "dropped"]

Return(t) ==
    /\ pc[t] = "returned"
    /\ pc' = [pc EXCEPT ![t] = "done"]
    /\ IF entry[t] = "capture_process"
       THEN /\ pv' = [pv EXCEPT ![t] = PvAfterReturn(pv[t], result[t])]
            /\ frame' = [frame EXCEPT ![t] = "popped"]
       ELSE UNCHANGED <<pv, frame>>
    /\ UNCHANGED <<entry, outIID, params, ev, handler, op, hrai, result,
                   events, hist, calls, args, traitVars>>

\* ------------------------------------------------------------- platform
\* the platform finishes the activation: it reads the parameter blob and
\* stores the status code and the optional interface in the operation
PlatformActivate(t, hr, ai) ==
    /\ op[t].state = "pending"
    /\ op' = [op EXCEPT ![t].state = "activated", ![t].hr = hr, ![t].ai = ai]
    /\ UNCHANGED <<pc, entry, outIID, params, pv, frame, ev, handler, hrai,
                   result, events, hist, calls, args, traitVars>>

\* lines 82-88, SyncHandler::ActivateCompleted: SetEvent(self.0)
HandlerClosesEvent(evs, h) == CloseHandle(evs, h)
\* a pulse: only a thread already waiting is woken
HandlerPulsesEvent(evs, h) ==
    IF h # NoHandle /\ evs[h].waiters > 0 THEN SetEvent(evs, h) ELSE evs
ActivateCompletedEffect(evs, h) == SetEvent(evs, h)

ActivateCompleted(t) ==
    /\ op[t].state = "activated"
    /\ events' = ActivateCompletedEffect(events, handler[t])
    /\ op' = [op EXCEPT ![t].state = "completed"]
    /\ hist' = [hist EXCEPT ![t].handlerRuns = @ + 1,
                            ![t].signals = @ + (IF events'[handler[t]].state = "open"
                                                   /\ events'[handler[t]].signaled
                                                THEN 1 ELSE 0)]
    /\ UNCHANGED <<pc, entry, outIID, params, pv, frame, ev, handler, hrai,
                   result, calls, args, traitVars>>

CallerStep(t) ==
    \/ CreateEventOk(t)
    \/ CreateEventFail(t)
    \/ SubmitOk(t)
    \/ SubmitFail(t)
    \/ WaitEnter(t)
    \/ WaitWake(t)
    \/ GetActivateResultOk(t)
    \/ GetActivateResultFail(t)
    \/ CloseHandleOk(t)
    \/ CloseHandleFail(t)
    \/ Branch(t)
    \/ Return(t)

Next ==
    \/ \E t \in Threads, pid \in Pids, tree \in BOOLEAN : capture_process(t, pid, tree)
    \/ \E t \in Threads, out \in IIDs : activate_audio_interface_sync(t, out)
    \/ \E t \in Threads : CallerStep(t)
    \/ \E t \in Threads, hr \in HResults, ai \in ObjKinds \cup {NoObj} :
            PlatformActivate(t, hr, ai)
    \/ \E t \in Threads : ActivateCompleted(t)

Spec == Init /\ [][Next]_vars

\* fairness of the caller threads: a thread that can take its next step does
LiveSpec == Spec /\ \A t \in Threads : WF_vars(CallerStep(t))


\* ================================================================ traits.rs
\* HostTrait and DeviceTrait default methods, over a backend described by
\* what its required methods answer.
DeviceIds == {"idA", "idB"}
ConfigLists == {<< >>, <<"cfg1", "cfg2">>}

\* Result values of the required methods
QueryOk(items) == [ok |-> TRUE, items |-> items]
QueryErr == [ok |-> FALSE, items |-> << >>]
IdOk(id) == [ok |-> TRUE, id |-> id]
IdErr == [ok |-> FALSE, id |-> "none"]

\* a device: what id(), supported_input_configs() and
\* supported_output_configs() return for it; slot tells devices apart
DeviceShapes ==
    [id : {IdErr} \cup {IdOk(i) : i \in DeviceIds},
     inputs : {QueryErr} \cup {QueryOk(c) : c \in ConfigLists},
     outputs : {QueryErr} \cup {QueryOk(c) : c \in ConfigLists}]

AtSlot(shape, i) ==
    [slot |-> i, id |-> shape.id, inputs |-> shape.inputs, outputs |-> shape.outputs]

Hosts ==
    {[devices |-> "Err", devs |-> << >>]} \cup
    UNION {{[devices |-> "Ok", devs |-> [i \in 1..n |-> AtSlot(f[i], i)]] :
                f \in [1..n -> DeviceShapes]} : n \in 0..MaxDevices}

\* lines 106-110 and 113-117:
\* supported_*_configs().map(|mut iter| iter.next().is_some()).unwrap_or(false)
NextIsSome(iter) == Len(iter) > 0
MapNextIsSome(res) == [ok |-> res.ok, value |-> res.ok /\ NextIsSome(res.items)]
UnwrapOrTrue(res) == IF res.ok THEN res.value ELSE TRUE
UnwrapOrFalse(res) == IF res.ok THEN res.value ELSE FALSE

supports_input(d) == UnwrapOrFalse(MapNextIsSome(d.inputs))
supports_output(d) == UnwrapOrFalse(MapNextIsSome(d.outputs))

\* lines 71-73 and 79-81: Ok(self.devices()?.filter(DeviceTrait::supports_*))
DevicesErr == [ok |-> FALSE, items |-> << >>]
InputDevicesByOutput(h) ==
    IF h.devices = "Err" THEN DevicesErr
    ELSE [ok |-> TRUE, items |-> SelectSeq(h.devs, supports_output)]
input_devices(h) ==
    IF h.devices = "Err" THEN DevicesErr
    ELSE [ok |-> TRUE, items |-> SelectSeq(h.devs, supports_input)]
output_devices(h) ==
    IF h.devices = "Err" THEN DevicesErr
    ELSE [ok |-> TRUE, items |-> SelectSeq(h.devs, supports_output)]

\* lines 51-55: self.devices().ok()?.find(|d| d.id().ok().as_ref() == Some(id))
IdMatches(d, id) == d.id.ok /\ d.id.id = id
RECURSIVE Find(_, _)
Find(devs, id) ==
    IF devs = << >> THEN << >>
    ELSE IF IdMatches(Head(devs), id) THEN <<Head(devs)>>
    ELSE Find(Tail(devs), id)

\* a scan that gives up at the first device whose id() fails
RECURSIVE FindStopAtIdError(_, _)
FindStopAtIdError(devs, id) ==
    IF devs = << >> THEN << >>
    ELSE IF ~Head(devs).id.ok THEN << >>
    ELSE IF IdMatches(Head(devs), id) THEN <<Head(devs)>>
    ELSE FindStopAtIdError(Tail(devs), id)

Scan(devs, id) == Find(devs, id)

\* the Option<Device> as a sequence of at most one device
device_by_id(h, id) ==
    IF h.devices = "Err" THEN << >> ELSE Scan(h.devs, id)

Called(name, dev, id, ok, flag, items) ==
    [op |-> name, dev |-> dev, id |-> id, ok |-> ok, flag |-> flag, items |-> items]

CallInputDevices ==
    /\ last' = LET r == input_devices(host)
               IN Called("input_devices", 0, "none", r.ok, FALSE, r.items)
    /\ UNCHANGED <<bridgeVars, host, stream>>

CallOutputDevices ==
    /\ last' = LET r == output_devices(host)
               IN Called("output_devices", 0, "none", r.ok, FALSE, r.items)
    /\ UNCHANGED <<bridgeVars, host, stream>>

CallSupportsInput(i) ==
    /\ i \in 1..Len(host.devs)
    /\ last' = Called("supports_input", i, "none", TRUE,
                      supports_input(host.devs[i]), << >>)
    /\ UNCHANGED <<bridgeVars, host, stream>>

CallSupportsOutput(i) ==
    /\ i \in 1..Len(host.devs)
    /\ last' = Called("supports_output", i, "none", TRUE,
                      supports_output(host.devs[i]), << >>)
    /\ UNCHANGED <<bridgeVars, host, stream>>

CallDeviceById(id) ==
    /\ last' = Called("device_by_id", 0, id, TRUE, FALSE, device_by_id(host, id))
    /\ UNCHANGED <<bridgeVars, host, stream>>

HostInit ==
    /\ BridgeInit
    /\ host \in Hosts
    /\ last = NoCall
    /\ stream = NoStream

HostNext ==
    \/ CallInputDevices
    \/ CallOutputDevices
    \/ \E i \in 1..MaxDevices : CallSupportsInput(i)
    \/ \E i \in 1..MaxDevices : CallSupportsOutput(i)
    \/ \E id \in DeviceIds : CallDeviceById(id)

HostSpec == HostInit /\ [][HostNext]_vars


\* ------------------------------------------- DeviceTrait, typed builders
SampleFormats == {"I16", "F32"}
StreamConfigs == {"cfgA", "cfgB"}
ErrorCallbacks == {"errA", "errB"}
Timeouts == {"None", "Some"}

\* Data::as_slice::<T>() / as_slice_mut::<T>(): Some only for a buffer whose
\* sample format is T::FORMAT
as_slice(dataFormat, T) == dataFormat = T

\* lines 152-164 and 180-192: the arguments the raw builder is called with
RawArgsDefaultFormat(T, config, errcb, timeout) ==
    [config |-> config, sample_format |-> "I16", errcb |-> errcb,
     timeout |-> timeout]
RawArgs(T, config, errcb, timeout) ==
    [config |-> config, sample_format |-> T, errcb |-> errcb,
     timeout |-> timeout]

\* the stream a typed builder leaves behind: the raw builder's outcome, the
\* typed call's arguments and the arguments the raw builder received
BuiltStream(dir, T, config, errcb, timeout, ok) ==
    [state |-> IF ok THEN "built" ELSE "failed",
     dir |-> dir,
     T |-> T,
     typed |-> [config |-> config, errcb |-> errcb, timeout |-> timeout],
     raw |-> RawArgs(T, config, errcb, timeout),
     bufs |-> << >>,
     dataCalls |-> 0,
     errCalls |-> 0,
     backendErrors |-> 0]

build_input_stream(T, config, errcb, timeout, ok) ==
    /\ stream = NoStream
    /\ stream' = BuiltStream("input", T, config, errcb, timeout, ok)
    /\ UNCHANGED <<bridgeVars, host, last>>

build_output_stream(T, config, errcb, timeout, ok) ==
    /\ stream = NoStream
    /\ stream' = BuiltStream("output", T, config, errcb, timeout, ok)
    /\ UNCHANGED <<bridgeVars, host, last>>

\* lines 155-161 and 183-189: the raw callback wrapped around data_callback
\*   data_callback(data.as_slice().expect("host supplied incorrect sample type"), info)
RawCallbackReportsError(st, dataFormat) ==
    IF as_slice(dataFormat, st.T)
    THEN [st EXCEPT !.dataCalls = @ + 1]
    ELSE [st EXCEPT !.errCalls = @ + 1]
RawCallback(st, dataFormat) ==
    IF as_slice(dataFormat, st.T)
    THEN [st EXCEPT !.dataCalls = @ + 1]
    ELSE [st EXCEPT !.state = "panicked"]

\* the backend delivers one buffer to the raw callback
Deliver(dataFormat) ==
    /\ stream.state = "built"
    /\ Len(stream.bufs) < MaxBuffers
    /\ stream' = RawCallback([stream EXCEPT !.bufs = Append(@, dataFormat)],
                             dataFormat)
    /\ UNCHANGED <<bridgeVars, host, last>>

\* the backend reports a stream error through the error callback it was given
BackendError ==
    /\ stream.state = "built"
    /\ stream.backendErrors < MaxBuffers
    /\ stream' = [stream EXCEPT !.backendErrors = @ + 1, !.errCalls = @ + 1]
    /\ UNCHANGED <<bridgeVars, host, last>>

StreamInit == BridgeInit /\ TraitsIdle

StreamNext ==
    \/ \E T \in SampleFormats, c \in StreamConfigs, e \in ErrorCallbacks,
          tm \in Timeouts, ok \in BOOLEAN : build_input_stream(T, c, e, tm, ok)
    \/ \E T \in SampleFormats, c \in StreamConfigs, e \in ErrorCallbacks,
          tm \in Timeouts, ok \in BOOLEAN : build_output_stream(T, c, e, tm, ok)
    \/ \E f \in SampleFormats : Deliver(f)
    \/ BackendError

StreamSpec == StreamInit /\ [][StreamNext]_vars

\* ------------------------------------------------------------ vocabulary
Returned(t) == pc[t] \in {"returned", "done"}
Submitted(t) == op[t].state # "none"
EventOpenFor(t) ==
    /\ ev[t] # NoHandle
    /\ events[ev[t]].state = "open"
    /\ events[ev[t]].owner = t
BlobValid(t) == frame[t] = "live" /\ pv[t].state = "live"

\* C1: when the activation request fails at submission, no synchronization
\* event created for the call is still open when the call returns.
C1_NoEventLeftAfterSubmitFailure ==
    \A t \in Threads :
        (Returned(t) /\ result[t].err = "ActivateAudioInterfaceAsync")
            => ~EventOpenFor(t)

\* C2: when the request was submitted, the call's event has been released
\* by the time the call returns, on every return path.
C2_EventReleasedOnEveryReturn ==
    \A t \in Threads : (Returned(t) /\ Submitted(t)) => ~EventOpenFor(t)

\* C3: in capture_process the activation record and the container pointing
\* at it stay valid from the submission of the request until the completion
\* handler has signaled.
C3_BlobValidUntilCompletionSignal ==
    \A t \in Threads :
        (entry[t] = "capture_process" /\ op[t].state \in {"pending", "activated"})
            => BlobValid(t)

C3_Witness ==
    \E t \in Threads :
        /\ entry[t] = "capture_process"
        /\ op[t].state = "activated"
        /\ pc[t] = "waiting"
        /\ BlobValid(t)

\* C4: after a successful submission the call neither queries the result
\* nor returns before the completion handler has been invoked, and a call
\* whose handler has not been invoked cannot leave the wait.
C4_NoResultBeforeCompletion ==
    \A t \in Threads :
        /\ (Submitted(t) /\ (hist[t].queried > 0 \/ Returned(t)
                             \/ pc[t] \in {"getresult", "close", "branch"}))
                => hist[t].handlerRuns > 0
        /\ (pc[t] = "waiting" /\ hist[t].handlerRuns = 0)
                => ~WaitReturns(events, ev[t])

C4_Witness ==
    \E t \in Threads :
        /\ Submitted(t)
        /\ hist[t].queried = 1
        /\ hist[t].handlerRuns = 1
        /\ Returned(t)

\* C5: once the completion handler of a submitted request has run, the call
\* eventually leaves the wait and returns, whether the handler ran before
\* or after the caller entered the wait.
C5_CompletionWakesCaller ==
    \A t \in Threads :
        (op[t].state = "completed" /\ pc[t] \in {"wait", "waiting"})
            ~> Returned(t)

\* the handler ran before the caller entered the wait
C5_Witness ==
    \E t \in Threads : op[t].state = "completed" /\ pc[t] = "wait"

\* C6: Ok is returned only with an interface the operation reported and
\* that narrowed to the requested type; a failed narrowing returns the
\* narrowing error.
C6_OkOnlyWhenNarrowed ==
    \A t \in Threads :
        Returned(t) =>
            /\ result[t].kind = "Ok" =>
                    /\ hist[t].retrieved = 1
                    /\ hrai[t].ai # NoObj
                    /\ result[t].obj = hrai[t].ai
                    /\ result[t].iid = outIID[t]
                    /\ outIID[t] \in Supports(result[t].obj)
            \* narrowing is attempted at line 71, once line 68 has released the event
            /\ (hist[t].closed = 1 /\ hrai[t].ai # NoObj
                    /\ outIID[t] \notin Supports(hrai[t].ai))
                    => (result[t].kind = "Err" /\ result[t].err = "cast")

C6_Witness ==
    /\ \E t \in Threads : Returned(t) /\ result[t].kind = "Ok"
    /\ \E t \in Threads : Returned(t) /\ result[t].err = "cast"

\* C7: when the completed operation reports no interface, the call returns
\* an error built from the operation's status code, whatever the code, and
\* never Ok.
C7_NoInterfaceGivesStatusError ==
    \A t \in Threads :
        (Returned(t) /\ hist[t].retrieved = 1 /\ hrai[t].ai = NoObj)
            => result[t] = ErrorFromHresult(hrai[t].hr)

\* C8: a submitted request gets exactly one completion signal: its event is
\* signaled once, by the completion handler, and a handler invocation does
\* nothing but signal that event.
C8_HandlerStepOnlySignals ==
    \A t \in Threads :
        (op[t].state = "activated" /\ op'[t].state = "completed") =>
            /\ events' = [events EXCEPT ![handler[t]].signaled = TRUE]
            /\ handler[t] = ev[t]
            /\ UNCHANGED <<pc, entry, outIID, params, pv, frame, ev, handler,
                           hrai, result, calls>>

C8_OneSignalPerRequest ==
    \A t \in Threads :
        /\ hist[t].signals <= 1
        /\ hist[t].signals = hist[t].handlerRuns
        /\ (EventOpenFor(t) /\ events[ev[t]].signaled) => hist[t].signals = 1
        /\ (Submitted(t) /\ Returned(t)) => hist[t].signals = 1

C8_ExactlyOneCompletionSignal ==
    []C8_OneSignalPerRequest /\ [][C8_HandlerStepOnlySignals]_vars

C8_Witness ==
    \E t \in Threads :
        /\ hist[t].signals = 1
        /\ EventOpenFor(t)
        /\ events[ev[t]].signaled

\* C9 as stated: one event per call, manual-reset and initially unsignaled;
\* once signaled it stays signaled until it is released, and it is not
\* signaled before the completion handler runs.
C9_OneEventPerCall ==
    \A t \in Threads :
        /\ hist[t].created <= 1
        /\ pc[t] \in {"submit", "wait", "waiting", "getresult", "close", "branch"}
                => hist[t].created = 1
        /\ (EventOpenFor(t) /\ hist[t].handlerRuns = 0) => ~events[ev[t]].signaled

C9_StaysSignaledUntilReleased ==
    \A h \in Handles :
        (events[h].state = "open" /\ events[h].signaled /\ events'[h].state = "open")
            => events'[h].signaled

C9_ManualResetEvent ==
    []C9_OneEventPerCall /\ [][C9_StaysSignaledUntilReleased]_vars

\* C9 amended: one event per call, auto-reset and initially unsignaled; it
\* is not signaled before the completion handler runs, once signaled it
\* stays signaled until the caller's wait returns, and that return resets it.
C9_SignalConsumedOnlyByWait ==
    \A h \in Handles :
        (events[h].state = "open" /\ events[h].signaled /\ events'[h].state = "open")
            => \/ events'[h].signaled
               \/ \E t \in Threads :
                    ev[t] = h /\ pc[t] = "waiting" /\ pc'[t] = "getresult"

C9_ResetAfterWait ==
    \A t \in Threads :
        (pc[t] \in {"getresult", "close"} /\ EventOpenFor(t))
            => ~events[ev[t]].signaled

C9_AutoResetEvent ==
    /\ [](C9_OneEventPerCall /\ C9_ResetAfterWait)
    /\ [][C9_SignalConsumedOnlyByWait]_vars

C9_Witness ==
    \E t \in Threads :
        /\ pc[t] = "getresult"
        /\ EventOpenFor(t)
        /\ hist[t].signals = 1
        /\ ~events[ev[t]].signaled

\* C10: one call submits at most one activation request, queries the
\* operation at most once, and a call that failed does not submit again.
C10_NoResubmit ==
    \A t \in Threads :
        (hist[t].attempts = 1 /\ pc'[t] # "create") => hist'[t].attempts = 1

C10_AtMostOnce ==
    \A t \in Threads : hist[t].attempts <= 1 /\ hist[t].queried <= 1

C10_OneShot == []C10_AtMostOnce /\ [][C10_NoResubmit]_vars

C10_Witness ==
    \E t \in Threads :
        /\ Returned(t)
        /\ result[t].kind = "Err"
        /\ hist[t].attempts = 1
        /\ hist[t].queried = 1

\* ------------------------------------------------- claims about traits.rs
\* items is exactly the devices of devs that satisfy keep, in devs' order
IsFilterOf(items, devs, keep(_)) ==
    /\ \A i \in 1..Len(devs) :
            (\E j \in 1..Len(items) : items[j] = devs[i]) <=> keep(devs[i])
    /\ \A j \in 1..Len(items) : \E i \in 1..Len(devs) : items[j] = devs[i]
    /\ \A j, k \in 1..Len(items) : j < k => items[j].slot < items[k].slot

\* C11: input_devices() yields exactly the devices of devices() for which
\* supports_input() is true, in the same order, output_devices() likewise
\* with supports_output(); when devices() fails both return that error.
C11_DevicesFilteredByCapability ==
    /\ last.op = "input_devices" =>
            IF host.devices = "Err" THEN ~last.ok
            ELSE last.ok /\ IsFilterOf(last.items, host.devs, supports_input)
    /\ last.op = "output_devices" =>
            IF host.devices = "Err" THEN ~last.ok
            ELSE last.ok /\ IsFilterOf(last.items, host.devs, supports_output)

\* of two devices, input_devices() kept the second and dropped the first
C11_Witness ==
    /\ last.op = "input_devices"
    /\ Len(host.devs) = 2
    /\ Len(last.items) = 1
    /\ last.items[1].slot = 2
    /\ supports_output(host.devs[1])

\* C12: supports_input() is true iff supported_input_configs() succeeds and
\* yields at least one item, and false (never an error) when the query
\* fails; supports_output() likewise over supported_output_configs().
C12_SupportsIffQueryYieldsItem ==
    /\ last.op = "supports_input" =>
            /\ last.ok
            /\ last.flag = (host.devs[last.dev].inputs.ok
                            /\ host.devs[last.dev].inputs.items # << >>)
    /\ last.op = "supports_output" =>
            /\ last.ok
            /\ last.flag = (host.devs[last.dev].outputs.ok
                            /\ host.devs[last.dev].outputs.items # << >>)

\* the query failed and supports_input() answered false
C12_Witness ==
    /\ last.op = "supports_input"
    /\ ~host.devs[last.dev].inputs.ok
    /\ last.flag = FALSE

\* C13: device_by_id(id) returns the first device of devices() whose id()
\* succeeds and equals id, None when devices() fails or no device matches;
\* a device whose id() fails is skipped.
MatchingSlots(id) ==
    {i \in 1..Len(host.devs) : host.devs[i].id.ok /\ host.devs[i].id.id = id}

C13_FirstDeviceWithId ==
    last.op = "device_by_id" =>
        IF host.devices = "Err" \/ MatchingSlots(last.id) = {}
        THEN last.items = << >>
        ELSE /\ Len(last.items) = 1
             /\ last.items[1].id = IdOk(last.id)
             /\ last.items[1].slot \in MatchingSlots(last.id)
             /\ \A i \in MatchingSlots(last.id) : last.items[1].slot <= i
             /\ last.items[1] = host.devs[last.items[1].slot]

\* the first device's id() failed and the scan went on to find the second
C13_Witness ==
    /\ last.op = "device_by_id"
    /\ Len(host.devs) = 2
    /\ ~host.devs[1].id.ok
    /\ Len(last.items) = 1
    /\ last.items[1].slot = 2

\* C14: the typed builders call the raw builder with T::FORMAT and pass
\* config, error callback and timeout through unchanged; a delivered buffer
\* of another format makes the wrapper panic without calling the data
\* callback or the error callback; a buffer of the format T::FORMAT calls
\* the data callback exactly once.
Matching(bufs, T) == {i \in 1..Len(bufs) : bufs[i] = T}

C14_TypedBuilderWrapsRaw ==
    stream.state # "none" =>
        /\ stream.raw.sample_format = stream.T
        /\ stream.raw.config = stream.typed.config
        /\ stream.raw.errcb = stream.typed.errcb
        /\ stream.raw.timeout = stream.typed.timeout
        /\ stream.dataCalls = Cardinality(Matching(stream.bufs, stream.T))
        /\ stream.errCalls = stream.backendErrors
        /\ (\E i \in 1..Len(stream.bufs) : stream.bufs[i] # stream.T)
                <=> stream.state = "panicked"
        /\ stream.state = "panicked" =>
                Matching(stream.bufs, stream.T) = 1..(Len(stream.bufs) - 1)

\* one buffer of the right format was passed on, the next one was not
C14_Witness ==
    /\ stream.state = "panicked"
    /\ stream.T = "F32"
    /\ Len(stream.bufs) = 2
    /\ stream.dataCalls = 1

\* C15: a capture_process call submits one request against the virtual
\* process-loopback device with a VT_BLOB container of the record's size
\* around a record of type process loopback for the given pid, whose mode is
\* "include target process tree" iff capture_tree is true; the bridge's
\* result is what it returns.
C15_SubmittedRecord ==
    \A t \in Threads :
        (entry[t] = "capture_process" /\ Submitted(t)) =>
            /\ hist[t].attempts = 1
            /\ op[t].path = VIRTUAL_AUDIO_DEVICE_PROCESS_LOOPBACK
            /\ op[t].iid = "IAudioClient"
            /\ op[t].blob = pv[t].pBlobData
            /\ pv[t].vt = VT_BLOB
            /\ pv[t].cbSize = SizeOfActivationParams
            /\ params[t].ActivationType = AUDIOCLIENT_ACTIVATION_TYPE_PROCESS_LOOPBACK
            /\ params[t].TargetProcessId = args[t].pid

C15_TreeModeIffCaptureTree ==
    \A t \in Threads :
        entry[t] = "capture_process" =>
            ((params[t].ProcessLoopbackMode =
                    PROCESS_LOOPBACK_MODE_INCLUDE_TARGET_PROCESS_TREE)
                <=> args[t].capture_tree)

C15_ProcessLoopbackRequest ==
    C15_SubmittedRecord /\ C15_TreeModeIffCaptureTree

\* C16: on every return path of capture_process, error paths included, the
\* PROPVARIANT is forgotten, so its cleanup never runs on the stack record.
C16_CleanupSuppressedOnEveryReturn ==
    \A t \in Threads :
        (entry[t] = "capture_process" /\ pc[t] = "done") =>
            pv[t].state = "forgotten"

\* C17: the completion handler never signals a handle the call has already
\* released: when the handler runs, its event is still open and still the
\* call's own, and the call closes the event only after the handler ran.
C17_HandlerRunsOnOpenEvent ==
    \A t \in Threads :
        hist'[t].handlerRuns = hist[t].handlerRuns + 1 =>
            /\ events[handler[t]].state = "open"
            /\ events[handler[t]].owner = t
            /\ hist[t].closed = 0

C17_ClosedOnlyAfterSignal ==
    \A t \in Threads :
        hist[t].closed > 0 => (hist[t].closed = 1 /\ hist[t].signals = 1)

C17_SetEventBeforeCloseHandle ==
    []C17_ClosedOnlyAfterSignal /\ [][C17_HandlerRunsOnOpenEvent]_vars

C17_Witness ==
    \E t \in Threads :
        /\ hist[t].signals = 1
        /\ hist[t].closed = 1
        /\ events[ev[t]].state = "free"

\* C18: concurrent calls each wait on their own event, a call's handler
\* signals only that event, and a call's wait returns only once its own
\* request has completed.
C18_OwnEvent ==
    \A t \in Threads :
        pc[t] \in {"submit", "wait", "waiting", "getresult", "close"} =>
            /\ handler[t] = ev[t]
            /\ events[ev[t]].state = "open"
            /\ events[ev[t]].owner = t
            /\ \A u \in Threads \ {t} :
                    pc[u] \in {"submit", "wait", "waiting", "getresult", "close"}
                        => ev[u] # ev[t]

C18_HandlerSignalsOwnEventOnly ==
    \A t \in Threads :
        hist'[t].handlerRuns = hist[t].handlerRuns + 1 =>
            \A h \in Handles \ {ev[t]} : events'[h] = events[h]

C18_WokenByOwnCompletionOnly ==
    \A t \in Threads :
        (pc[t] = "waiting" /\ pc'[t] # "waiting") => op[t].state = "completed"

C18_ConcurrentCallsIndependent ==
    /\ []C18_OwnEvent
    /\ [][C18_HandlerSignalsOwnEventOnly /\ C18_WokenByOwnCompletionOnly]_vars

\* two calls wait at once, one request has completed and the other has not
C18_Witness ==
    /\ pc[1] = "waiting" /\ pc[2] = "waiting"
    /\ ev[1] # ev[2]
    /\ op[1].state = "completed" /\ events[ev[1]].signaled
    /\ op[2].state # "completed" /\ ~events[ev[2]].signaled

\* C19: a call whose completed operation reported an interface that narrows
\* to the requested type returns Ok, whatever CloseHandle reported.
C19_CloseFailureKeepsOk ==
    \A t \in Threads :
        (/\ Returned(t)
         /\ hist[t].retrieved = 1
         /\ hrai[t].ai # NoObj
         /\ outIID[t] \in Supports(hrai[t].ai)) =>
            (result[t].kind = "Ok" /\ result[t].obj = hrai[t].ai)

====
